---- MODULE Spec2Model ----
(***************************************************************************)
(* The append-only log storage engine of mydb (src/mydb/storage/logger.py) *)
(* as a state machine: the log file as a sequence of bytes, the record     *)
(* codec over that sequence, the key -> offset index of every engine       *)
(* instance, and the engine operations __init__ (open), get, set, delete.  *)
(***************************************************************************)
EXTENDS Integers, Sequences, FiniteSets, TLC

(***************************************************************************)
(* Bounds of the model.                                                    *)
(***************************************************************************)
\* Number of set/delete calls in one run.
MaxOps == 3

\* Number of set/delete calls in one run in which the file is also changed
\* from outside the engine.
MaxTamperOps == 2

\* Number of set/delete calls in one run in which several engines write.
MaxMultiOps == 2

\* Number of set/delete calls in one run in which an append may fail or the
\* process may stop.
MaxFaultOps == 2

\* Number of set/delete calls in one run in which engines are constructed
\* with an index that holds entries.
MaxSuppliedOps == 2

\* Keys and values are byte strings.  The keys are the empty key and a key
\* it is a byte prefix of; the values include the empty value, and the
\* empty key with value <<2>> has the payload bytes of key <<2>> with the
\* empty value.
Keys == { <<>>, <<2>> }
Values == { <<>>, <<2>> }

\* Engine objects (the Python objects a caller may hold).
Instances == { "A", "B" }

(***************************************************************************)
(* AppendOnlyLogOperation and the header layout Struct("BQQ").             *)
(***************************************************************************)
SET == 0
DELETE == 1

\* Struct("BQQ").size: native alignment puts the two u64 fields at byte 8
\* and byte 16 of the header (64-bit build), after 7 padding bytes.
STRUCT_size == 24
KeySizeAt == 8
ValueSizeAt == 16

\* A size too large for any file of the model: what a size field decodes to
\* when one of its five high bytes is set.
Huge == 256 * 65536

Min(a, b) == IF a < b THEN a ELSE b

\* n zero bytes (the padding Struct inserts).
Zeros(n) == [i \in 1..n |-> 0]

\* An unsigned 64-bit field, least significant byte first.  The sizes of
\* the model are below 2^24, so the five high bytes are zero.
U64ToBytes(n) ==
    [i \in 1..8 |-> IF i = 1 THEN n % 256
                    ELSE IF i = 2 THEN (n \div 256) % 256
                    ELSE IF i = 3 THEN (n \div 65536) % 256
                    ELSE 0]

U64FromBytes(b) ==
    IF \E i \in 4..8 : b[i] # 0
    THEN Huge
    ELSE b[1] + 256 * b[2] + 65536 * b[3]

\* Mutant of HeaderToBytes: the two size fields are packed in the other
\* order.
HeaderToBytesSwappingSizes(op, key_size, value_size) ==
    <<op>> \o Zeros(KeySizeAt - 1) \o U64ToBytes(value_size) \o U64ToBytes(key_size)

\* AppendOnlyLogHeader.to_bytes
HeaderToBytes(op, key_size, value_size) ==
    <<op>> \o Zeros(KeySizeAt - 1) \o U64ToBytes(key_size) \o U64ToBytes(value_size)

\* AppendOnlyLogPayload.to_bytes
PayloadToBytes(key, value) == key \o value

\* Mutant of ToStream: the file is opened for writing, not for appending, so
\* the record replaces the content.
ToStreamTruncating(data, op, key, value) ==
    HeaderToBytes(op, Len(key), Len(value)) \o PayloadToBytes(key, value)

\* AppendOnlyLogRecord.to_stream on a stream in append mode: the header is
\* written, then the payload, both at the end of the file.
ToStream(data, op, key, value) ==
    (data \o HeaderToBytes(op, Len(key), Len(value))) \o PayloadToBytes(key, value)

\* stream.read(n) at position p: a short read at end of file.
Read(data, p, n) == SubSeq(data, p + 1, Min(p + n, Len(data)))

NoRecord == [kind |-> "none", offset |-> 0, op |-> SET, key |-> <<>>, value |-> <<>>, next |-> 0]

CorruptedAt(p) == [kind |-> "corrupted", offset |-> p, op |-> SET, key |-> <<>>, value |-> <<>>, next |-> 0]

\* AppendOnlyLogHeader.from_bytes: the operation tag must be a member of
\* AppendOnlyLogOperation.
HeaderFromBytes(h) ==
    [ok |-> h[1] \in {SET, DELETE},
     operation |-> h[1],
     key_size |-> U64FromBytes(SubSeq(h, KeySizeAt + 1, KeySizeAt + 8)),
     value_size |-> U64FromBytes(SubSeq(h, ValueSizeAt + 1, ValueSizeAt + 8))]

\* Mutant of FromStream: a header that is cut short counts as the end of the
\* stream.
FromStreamShortHeaderIsEnd(data, p) ==
    LET header_bytes == Read(data, p, STRUCT_size)
    IN  IF Len(header_bytes) < STRUCT_size THEN NoRecord
        ELSE LET header == HeaderFromBytes(header_bytes)
                 payload_size == header.key_size + header.value_size
                 payload_bytes == Read(data, p + STRUCT_size, payload_size)
             IN  IF ~header.ok THEN CorruptedAt(p)
                 ELSE IF Len(payload_bytes) # payload_size THEN CorruptedAt(p)
                 ELSE [kind |-> "record", offset |-> p, op |-> header.operation,
                       key |-> SubSeq(payload_bytes, 1, header.key_size),
                       value |-> SubSeq(payload_bytes, header.key_size + 1, payload_size),
                       next |-> p + STRUCT_size + payload_size]

\* Mutant of FromStream: LogCorruptedError carries the position the stream
\* is at when the read comes up short, not the position the record starts.
FromStreamOffsetAtShortRead(data, p) ==
    LET header_bytes == Read(data, p, STRUCT_size)
    IN  IF Len(header_bytes) = 0 THEN NoRecord
        ELSE IF Len(header_bytes) < STRUCT_size THEN CorruptedAt(p + Len(header_bytes))
        ELSE LET header == HeaderFromBytes(header_bytes)
                 payload_size == header.key_size + header.value_size
                 payload_bytes == Read(data, p + STRUCT_size, payload_size)
             IN  IF ~header.ok THEN CorruptedAt(p + STRUCT_size)
                 ELSE IF Len(payload_bytes) # payload_size
                      THEN CorruptedAt(p + STRUCT_size + Len(payload_bytes))
                 ELSE [kind |-> "record", offset |-> p, op |-> header.operation,
                       key |-> SubSeq(payload_bytes, 1, header.key_size),
                       value |-> SubSeq(payload_bytes, header.key_size + 1, payload_size),
                       next |-> p + STRUCT_size + payload_size]

\* AppendOnlyLogRecord.from_stream at position p: no record when nothing is
\* left to read, LogCorruptedError(offset = p) on a short header, an unknown
\* operation or a short payload, else the record and the stream position
\* after it.
FromStream(data, p) ==
    LET header_bytes == Read(data, p, STRUCT_size)
    IN  IF Len(header_bytes) = 0 THEN NoRecord
        ELSE IF Len(header_bytes) < STRUCT_size THEN CorruptedAt(p)
        ELSE LET header == HeaderFromBytes(header_bytes)
                 payload_size == header.key_size + header.value_size
                 payload_bytes == Read(data, p + STRUCT_size, payload_size)
             IN  IF ~header.ok THEN CorruptedAt(p)
                 ELSE IF Len(payload_bytes) # payload_size THEN CorruptedAt(p)
                 ELSE [kind |-> "record", offset |-> p, op |-> header.operation,
                       key |-> SubSeq(payload_bytes, 1, header.key_size),
                       value |-> SubSeq(payload_bytes, header.key_size + 1, payload_size),
                       next |-> p + STRUCT_size + payload_size]

(***************************************************************************)
(* The key index (Index in storage/abc.py): a map from keys to offsets.    *)
(***************************************************************************)
EmptyIndex == [k \in {} |-> 0]

IndexHas(ix, k) == k \in DOMAIN ix

IndexGet(ix, k) == ix[k]

\* Index.get as a call: the stored offset, or KeyNotFound carrying the key.
IndexGetResult(ix, k) ==
    IF IndexHas(ix, k)
    THEN [outcome |-> "ok", key |-> k, offset |-> IndexGet(ix, k)]
    ELSE [outcome |-> "KeyNotFound", key |-> k, offset |-> <<>>]

\* Mutant of IndexSet: the entry of a key already present is kept.
IndexSetKeepingFirst(ix, k, o) ==
    [x \in (DOMAIN ix) \cup {k} |-> IF x \in DOMAIN ix THEN ix[x] ELSE o]

IndexSet(ix, k, o) == [x \in (DOMAIN ix) \cup {k} |-> IF x = k THEN o ELSE ix[x]]

IndexDelete(ix, k) == [x \in (DOMAIN ix) \ {k} |-> ix[x]]

(***************************************************************************)
(* The engine's private helpers.                                           *)
(***************************************************************************)
\* _build_index from position p: every decoded SET puts its key at the
\* record's offset, every DELETE removes its key; the scan ends at the end
\* of the file, or with the decoder's LogCorruptedError (the index then
\* keeps what the scan did before the error).
RECURSIVE BuildIndexFrom(_, _, _)
BuildIndexFrom(data, p, ix) ==
    LET record == FromStream(data, p)
    IN  IF record.kind = "none" THEN [outcome |-> "ok", offset |-> 0, index |-> ix]
        ELSE IF record.kind = "corrupted"
             THEN [outcome |-> "Corrupted", offset |-> record.offset, index |-> ix]
        ELSE IF record.op = DELETE
             THEN BuildIndexFrom(data, record.next, IndexDelete(ix, record.key))
        ELSE BuildIndexFrom(data, record.next, IndexSet(ix, record.key, p))

\* Mutant of BuildIndex: the scan skips DELETE records.
RECURSIVE BuildIndexIgnoringDeleteFrom(_, _, _)
BuildIndexIgnoringDeleteFrom(data, p, ix) ==
    LET record == FromStream(data, p)
    IN  IF record.kind = "none" THEN [outcome |-> "ok", offset |-> 0, index |-> ix]
        ELSE IF record.kind = "corrupted"
             THEN [outcome |-> "Corrupted", offset |-> record.offset, index |-> ix]
        ELSE IF record.op = DELETE
             THEN BuildIndexIgnoringDeleteFrom(data, record.next, ix)
        ELSE BuildIndexIgnoringDeleteFrom(data, record.next, IndexSet(ix, record.key, p))

BuildIndexIgnoringDelete(data, ix) == BuildIndexIgnoringDeleteFrom(data, 0, ix)

\* Mutant of BuildIndex: the offset of a record is taken after the record
\* is read.
RECURSIVE BuildIndexTellAfterReadFrom(_, _, _)
BuildIndexTellAfterReadFrom(data, p, ix) ==
    LET record == FromStream(data, p)
    IN  IF record.kind = "none" THEN [outcome |-> "ok", offset |-> 0, index |-> ix]
        ELSE IF record.kind = "corrupted"
             THEN [outcome |-> "Corrupted", offset |-> record.offset, index |-> ix]
        ELSE IF record.op = DELETE
             THEN BuildIndexTellAfterReadFrom(data, record.next, IndexDelete(ix, record.key))
        ELSE BuildIndexTellAfterReadFrom(data, record.next,
                                         IndexSet(ix, record.key, record.next))

BuildIndexTellAfterRead(data, ix) == BuildIndexTellAfterReadFrom(data, 0, ix)

BuildIndex(data, ix) == BuildIndexFrom(data, 0, ix)

\* Mutant of AppendRecord: the offset is taken after the record is written.
AppendRecordTellAfterWrite(data, op, key, value) ==
    [offset |-> Len(ToStream(data, op, key, value)), data |-> ToStream(data, op, key, value)]

\* _append_record: the offset is the end of the file when it is opened for
\* appending, and the record is written there.
AppendRecord(data, op, key, value) ==
    [offset |-> Len(data), data |-> ToStream(data, op, key, value)]

\* _load_record_at: LogInvalidOffsetError when the decoder finds nothing at
\* the offset, the decoder's LogCorruptedError, else the record.
LoadRecordAt(data, offset) ==
    LET record == FromStream(data, offset)
    IN  IF record.kind = "none"
        THEN [outcome |-> "InvalidOffset", offset |-> offset, record |-> record]
        ELSE IF record.kind = "corrupted"
        THEN [outcome |-> "Corrupted", offset |-> record.offset, record |-> record]
        ELSE [outcome |-> "ok", offset |-> offset, record |-> record]

\* Mutant of GetResult: a record that does not decode evicts the entry as a
\* record of another key does.
GetResultEvictingOnError(ix, data, key) ==
    IF ~IndexHas(ix, key)
    THEN [outcome |-> "KeyNotFound", value |-> <<>>, offset |-> 0, index |-> ix]
    ELSE LET offset == IndexGet(ix, key)
             loaded == LoadRecordAt(data, offset)
         IN  IF loaded.outcome # "ok"
             THEN [outcome |-> loaded.outcome, value |-> <<>>, offset |-> loaded.offset,
                   index |-> IF loaded.outcome = "Corrupted" THEN IndexDelete(ix, key) ELSE ix]
             ELSE IF loaded.record.key = key
             THEN [outcome |-> "ok", value |-> loaded.record.value, offset |-> offset, index |-> ix]
             ELSE [outcome |-> "InvalidOffset", value |-> <<>>, offset |-> offset,
                   index |-> IndexDelete(ix, key)]

\* What get(key) does on an index ix and a file data: the outcome, the value
\* returned, the offset an error carries, and the index it leaves
\* (LogKeyNotFoundError carries the key asked for, in last.key).
GetResult(ix, data, key) ==
    IF ~IndexHas(ix, key)
    THEN [outcome |-> "KeyNotFound", value |-> <<>>, offset |-> 0, index |-> ix]
    ELSE LET offset == IndexGet(ix, key)
             loaded == LoadRecordAt(data, offset)
         IN  IF loaded.outcome # "ok"
             THEN [outcome |-> loaded.outcome, value |-> <<>>, offset |-> loaded.offset, index |-> ix]
             ELSE IF loaded.record.key = key
             THEN [outcome |-> "ok", value |-> loaded.record.value, offset |-> offset, index |-> ix]
             ELSE [outcome |-> "InvalidOffset", value |-> <<>>, offset |-> offset,
                   index |-> IndexDelete(ix, key)]

\* Mutant of WithOpen: f = open(...) with f.close() as the last statement,
\* which an exception skips.
OpenThenClose(held, raised) ==
    LET opened == held + 1
    IN  IF raised THEN opened ELSE opened - 1

\* `with open(self._filepath, mode) as f:` on an engine that holds `held`
\* handles: open() gives one more, and the block gives it back when it is
\* left, by its last statement, by return or by an exception (raised).
WithOpen(held, raised) ==
    LET opened == held + 1
        closed_on_return == 1
        closed_on_exception == 1
    IN  opened - (IF raised THEN closed_on_exception ELSE closed_on_return)

\* The handles after get(key): the index is asked first, and only a key it
\* holds takes get to _load_record_at, whose block is left by the decoder's
\* LogCorruptedError, by LogInvalidOffsetError or by return.
GetHandles(held, ix, data, key) ==
    IF ~IndexHas(ix, key) THEN held
    ELSE WithOpen(held, LoadRecordAt(data, IndexGet(ix, key)).outcome # "ok")

(***************************************************************************)
(* State.                                                                  *)
(***************************************************************************)
VARIABLES
    file,     \* the bytes of the log file at the engine's path
    exists,   \* whether the path exists
    index,    \* index[i]: the index object of engine i
    status,   \* status[i]: "none" (not constructed), "open", "failed" (__init__ raised)
    current,  \* the engine constructed last
    last,     \* the operation that ran last and how it ended
    hist,     \* the set and delete calls made so far, in call order
    tail,     \* what something other than the engine did to the end of the log
    handles   \* handles[i]: the file handles engine i holds open

vars == <<file, exists, index, status, current, last, hist, tail, handles>>

\* tail.kind is "clean" while only engines have written the log, "cut" when
\* the log was cut at the end of a record (complete records are left),
\* "torn" when complete records (tail.good, as the scan decoded them before)
\* are followed by a partial header, a partial payload or a header with an
\* unknown operation tag, and "mixed" once an engine has appended after such
\* an end.
Clean == [kind |-> "clean", good |-> <<>>]

AfterAppend(t) == IF t.kind = "torn" THEN [t EXCEPT !.kind = "mixed"] ELSE t

NoOp == [inst |-> "A", op |-> "none", key |-> <<>>, arg |-> <<>>, outcome |-> "ok",
         value |-> <<>>, offset |-> 0]

Init ==
    /\ file = <<>>
    /\ exists \in BOOLEAN
    /\ index = [i \in Instances |-> EmptyIndex]
    /\ status = [i \in Instances |-> "none"]
    /\ current = "A"
    /\ last = NoOp
    /\ hist = <<>>
    /\ tail = Clean
    /\ handles = [i \in Instances |-> 0]

(***************************************************************************)
(* Engine operations.                                                      *)
(***************************************************************************)
\* Mutant of Open: the log is not scanned, the index stays as supplied.
OpenWithoutScan(i, index0) ==
    /\ exists' = TRUE
    /\ index' = [index EXCEPT ![i] = index0]
    /\ status' = [status EXCEPT ![i] = "open"]
    /\ current' = i
    /\ last' = [inst |-> i, op |-> "open", key |-> <<>>, arg |-> <<>>,
                outcome |-> "ok", value |-> <<>>, offset |-> 0]
    /\ handles' = [handles EXCEPT ![i] = 0]
    /\ UNCHANGED <<file, hist, tail>>

\* AppendOnlyLogStorage(filepath, index0): touch the path, then scan the log
\* into the index object supplied.
Open(i, index0) ==
    LET built == BuildIndex(file, index0)
    IN  /\ exists' = TRUE
        /\ index' = [index EXCEPT ![i] = built.index]
        /\ status' = [status EXCEPT ![i] = IF built.outcome = "ok" THEN "open" ELSE "failed"]
        /\ current' = i
        /\ last' = [inst |-> i, op |-> "open", key |-> <<>>, arg |-> <<>>,
                    outcome |-> built.outcome, value |-> <<>>, offset |-> built.offset]
        /\ handles' = [handles EXCEPT ![i] = WithOpen(0, built.outcome # "ok")]
        /\ UNCHANGED <<file, hist, tail>>

\* get(key)
Get(i, key) ==
    LET got == GetResult(index[i], file, key)
    IN  /\ status[i] = "open"
        /\ index' = [index EXCEPT ![i] = got.index]
        /\ last' = [inst |-> i, op |-> "get", key |-> key, arg |-> <<>>,
                    outcome |-> got.outcome, value |-> got.value, offset |-> got.offset]
        /\ handles' = [handles EXCEPT ![i] = GetHandles(handles[i], index[i], file, key)]
        /\ UNCHANGED <<file, exists, status, current, hist, tail>>

\* Mutant of Set: the index entry of a key already present is not moved.
SetKeepingFirstOffset(i, key, value) ==
    LET appended == AppendRecord(file, SET, key, value)
    IN  /\ status[i] = "open"
        /\ file' = appended.data
        /\ index' = IF IndexHas(index[i], key) THEN index
                    ELSE [index EXCEPT ![i] = IndexSet(index[i], key, appended.offset)]
        /\ last' = [inst |-> i, op |-> "set", key |-> key, arg |-> value,
                    outcome |-> "ok", value |-> <<>>, offset |-> appended.offset]
        /\ hist' = Append(hist, [op |-> SET, key |-> key, value |-> value])
        /\ tail' = AfterAppend(tail)
        /\ handles' = [handles EXCEPT ![i] = WithOpen(handles[i], FALSE)]
        /\ UNCHANGED <<exists, status, current>>

\* Mutant of Set: a set of the value the key already holds writes nothing.
SetSkippingUnchanged(i, key, value) ==
    LET appended == AppendRecord(file, SET, key, value)
        held == GetResult(index[i], file, key)
        same == held.outcome = "ok" /\ held.value = value
    IN  /\ status[i] = "open"
        /\ file' = IF same THEN file ELSE appended.data
        /\ index' = IF same THEN index
                    ELSE [index EXCEPT ![i] = IndexSet(index[i], key, appended.offset)]
        /\ last' = [inst |-> i, op |-> "set", key |-> key, arg |-> value,
                    outcome |-> "ok", value |-> <<>>, offset |-> appended.offset]
        /\ hist' = Append(hist, [op |-> SET, key |-> key, value |-> value])
        /\ tail' = IF same THEN tail ELSE AfterAppend(tail)
        /\ handles' = [handles EXCEPT ![i] = WithOpen(handles[i], FALSE)]
        /\ UNCHANGED <<exists, status, current>>

\* set(key, value)
Set(i, key, value) ==
    LET appended == AppendRecord(file, SET, key, value)
    IN  /\ status[i] = "open"
        /\ file' = appended.data
        /\ index' = [index EXCEPT ![i] = IndexSet(index[i], key, appended.offset)]
        /\ last' = [inst |-> i, op |-> "set", key |-> key, arg |-> value,
                    outcome |-> "ok", value |-> <<>>, offset |-> appended.offset]
        /\ hist' = Append(hist, [op |-> SET, key |-> key, value |-> value])
        /\ tail' = AfterAppend(tail)
        /\ handles' = [handles EXCEPT ![i] = WithOpen(handles[i], FALSE)]
        /\ UNCHANGED <<exists, status, current>>

\* Mutant of Delete: the DELETE record is written but the index entry stays.
DeleteKeepingIndexEntry(i, key) ==
    LET appended == AppendRecord(file, DELETE, key, <<>>)
        present == IndexHas(index[i], key)
    IN  /\ status[i] = "open"
        /\ file' = IF present THEN appended.data ELSE file
        /\ index' = index
        /\ last' = [inst |-> i, op |-> "delete", key |-> key, arg |-> <<>>,
                    outcome |-> "ok", value |-> <<>>, offset |-> Len(file)]
        /\ hist' = Append(hist, [op |-> DELETE, key |-> key, value |-> <<>>])
        /\ tail' = IF present THEN AfterAppend(tail) ELSE tail
        /\ handles' = [handles EXCEPT ![i] = IF present THEN WithOpen(handles[i], FALSE) ELSE handles[i]]
        /\ UNCHANGED <<exists, status, current>>

\* Mutant of Delete: the DELETE record is written without asking the index
\* whether the key is present.
DeleteAlwaysAppending(i, key) ==
    LET appended == AppendRecord(file, DELETE, key, <<>>)
    IN  /\ status[i] = "open"
        /\ file' = appended.data
        /\ index' = [index EXCEPT ![i] = IndexDelete(index[i], key)]
        /\ last' = [inst |-> i, op |-> "delete", key |-> key, arg |-> <<>>,
                    outcome |-> "ok", value |-> <<>>, offset |-> Len(file)]
        /\ hist' = Append(hist, [op |-> DELETE, key |-> key, value |-> <<>>])
        /\ tail' = AfterAppend(tail)
        /\ handles' = [handles EXCEPT ![i] = WithOpen(handles[i], FALSE)]
        /\ UNCHANGED <<exists, status, current>>

\* Mutant of Delete: every key that starts with the deleted key leaves the
\* index with it.
DeleteByPrefix(i, key) ==
    LET appended == AppendRecord(file, DELETE, key, <<>>)
        present == IndexHas(index[i], key)
        kept == { x \in DOMAIN index[i] : ~(Len(key) <= Len(x) /\ SubSeq(x, 1, Len(key)) = key) }
    IN  /\ status[i] = "open"
        /\ file' = IF present THEN appended.data ELSE file
        /\ index' = IF present THEN [index EXCEPT ![i] = [x \in kept |-> index[i][x]]] ELSE index
        /\ last' = [inst |-> i, op |-> "delete", key |-> key, arg |-> <<>>,
                    outcome |-> "ok", value |-> <<>>, offset |-> Len(file)]
        /\ hist' = Append(hist, [op |-> DELETE, key |-> key, value |-> <<>>])
        /\ tail' = IF present THEN AfterAppend(tail) ELSE tail
        /\ handles' = [handles EXCEPT ![i] = IF present THEN WithOpen(handles[i], FALSE) ELSE handles[i]]
        /\ UNCHANGED <<exists, status, current>>

\* Mutant of Delete: the index is given the offset of the DELETE record
\* instead of losing the key.
DeleteIndexingTombstone(i, key) ==
    LET appended == AppendRecord(file, DELETE, key, <<>>)
        present == IndexHas(index[i], key)
    IN  /\ status[i] = "open"
        /\ file' = IF present THEN appended.data ELSE file
        /\ index' = IF present
                    THEN [index EXCEPT ![i] = IndexSet(index[i], key, appended.offset)]
                    ELSE index
        /\ last' = [inst |-> i, op |-> "delete", key |-> key, arg |-> <<>>,
                    outcome |-> "ok", value |-> <<>>, offset |-> Len(file)]
        /\ hist' = Append(hist, [op |-> DELETE, key |-> key, value |-> <<>>])
        /\ tail' = IF present THEN AfterAppend(tail) ELSE tail
        /\ handles' = [handles EXCEPT ![i] = IF present THEN WithOpen(handles[i], FALSE) ELSE handles[i]]
        /\ UNCHANGED <<exists, status, current>>

\* delete(key)
Delete(i, key) ==
    LET appended == AppendRecord(file, DELETE, key, <<>>)
        present == IndexHas(index[i], key)
    IN  /\ status[i] = "open"
        /\ file' = IF present THEN appended.data ELSE file
        /\ index' = IF present THEN [index EXCEPT ![i] = IndexDelete(index[i], key)] ELSE index
        /\ last' = [inst |-> i, op |-> "delete", key |-> key, arg |-> <<>>,
                    outcome |-> "ok", value |-> <<>>, offset |-> Len(file)]
        /\ hist' = Append(hist, [op |-> DELETE, key |-> key, value |-> <<>>])
        /\ tail' = IF present THEN AfterAppend(tail) ELSE tail
        /\ handles' = [handles EXCEPT ![i] = IF present THEN WithOpen(handles[i], FALSE) ELSE handles[i]]
        /\ UNCHANGED <<exists, status, current>>

(***************************************************************************)
(* One engine at a time: a caller constructs an engine over the path with  *)
(* a fresh index and works with it; an engine constructed later replaces   *)
(* it as the engine in use.                                                *)
(***************************************************************************)
Next ==
    \/ \E i \in Instances : (status[current] = "none" \/ i # current) /\ Open(i, EmptyIndex)
    \/ \E k \in Keys : Get(current, k)
    \/ \E k \in Keys, v \in Values : Len(hist) < MaxOps /\ Set(current, k, v)
    \/ \E k \in Keys : Len(hist) < MaxOps /\ Delete(current, k)

Spec == Init /\ [][Next]_vars

(***************************************************************************)
(* Reading the log as a whole.                                             *)
(***************************************************************************)
IsPrefix(s, t) == Len(s) <= Len(t) /\ SubSeq(t, 1, Len(s)) = s

\* The records a scan of the log from position p decodes, in order, up to
\* the end of the file or the first position that does not decode.
RECURSIVE ScanFrom(_, _)
ScanFrom(data, p) ==
    LET record == FromStream(data, p)
    IN  IF record.kind # "record" THEN <<>>
        ELSE <<[op |-> record.op, key |-> record.key, value |-> record.value,
                offset |-> p]>> \o ScanFrom(data, record.next)

(***************************************************************************)
(* The log file in other hands: the file is cut short, or bytes that are   *)
(* no record are added to it, by something that is not the engine.         *)
(***************************************************************************)
RecordEnd(r) == r.offset + STRUCT_size + Len(r.key) + Len(r.value)

GoodEnd(records) == IF records = <<>> THEN 0 ELSE RecordEnd(records[Len(records)])

External == [inst |-> "A", op |-> "external", key |-> <<>>, arg |-> <<>>, outcome |-> "ok",
             value |-> <<>>, offset |-> 0]

\* Bytes that are no record: nine stray bytes, and a whole header whose
\* operation tag is neither SET nor DELETE.
Garbage == { [i \in 1..9 |-> 7], HeaderToBytes(2, 0, 0), HeaderToBytes(255, 1, 0) \o <<1>> }

\* Where a log is cut: for every record, at its start, inside its header
\* (after the first and before the last header byte), right after its
\* header and one byte before its end.  The decoder tells apart no other
\* lengths of what is left of a record.
CutPoints(data) ==
    LET records == ScanFrom(data, 0)
    IN  UNION { { r.offset, r.offset + 1, r.offset + STRUCT_size - 1,
                  r.offset + STRUCT_size, RecordEnd(r) - 1 } :
                r \in { records[n] : n \in 1..Len(records) } }

\* The file, a log of complete records, is truncated to its first n bytes.
ExternalTruncate(n) ==
    LET good == SelectSeq(ScanFrom(file, 0), LAMBDA r : RecordEnd(r) <= n)
    IN  /\ exists
        /\ tail.kind = "clean"
        /\ n < Len(file)
        /\ file' = SubSeq(file, 1, n)
        /\ tail' = [kind |-> IF n = GoodEnd(good) THEN "cut" ELSE "torn", good |-> good]
        /\ last' = External
        /\ UNCHANGED <<handles, exists, index, status, current, hist>>

\* Bytes that are no record are added at the end of a log of complete records.
ExternalAppend(bytes) ==
    /\ exists
    /\ tail.kind = "clean"
    /\ file' = file \o bytes
    /\ tail' = [kind |-> "torn", good |-> ScanFrom(file, 0)]
    /\ last' = External
    /\ UNCHANGED <<handles, exists, index, status, current, hist>>

\* The file is replaced by a log that holds one record, written by other
\* hands with the engine's own encoding.
ExternalRewrite(op, key, value) ==
    /\ exists
    /\ tail.kind = "clean"
    /\ Len(file) > 0
    /\ file' = ToStream(<<>>, op, key, value)
    /\ tail' = [kind |-> "cut", good |-> ScanFrom(ToStream(<<>>, op, key, value), 0)]
    /\ last' = External
    /\ UNCHANGED <<handles, exists, index, status, current, hist>>

\* The keys of the runs in which the file is changed from outside: a key
\* and a key it is a byte prefix of; key <<1>> with value <<2>> has the
\* payload bytes of key <<1, 2>> with the empty value.
TamperKeys == { <<1>>, <<1, 2>> }

\* Every engine object is constructed once, over whatever the file holds
\* then, and the file is changed from outside once: cut, extended with
\* bytes that are no record, or replaced by a log of one DELETE record.
NextTamper ==
    \/ \E i \in Instances : status[i] = "none" /\ Open(i, EmptyIndex)
    \/ \E k \in TamperKeys : Get(current, k)
    \/ \E k \in TamperKeys, v \in Values : Len(hist) < MaxTamperOps /\ Set(current, k, v)
    \/ \E k \in TamperKeys : Len(hist) < MaxTamperOps /\ Delete(current, k)
    \/ \E n \in CutPoints(file) : ExternalTruncate(n)
    \/ \E bytes \in Garbage : ExternalAppend(bytes)
    \/ \E k \in TamperKeys : ExternalRewrite(DELETE, k, <<>>)

SpecTamper == Init /\ [][NextTamper]_vars

(***************************************************************************)
(* The call history and what it says the log and the reads should be.      *)
(***************************************************************************)
\* The positions in a sequence of calls or records that are about key k.
About(h, k) == { n \in 1..Len(h) : h[n].key = k }

Last(S) == CHOOSE n \in S : \A m \in S : m <= n

\* The most recent mutation of k among the calls h is set(k, v).
LastIsSet(h, k, v) ==
    /\ About(h, k) # {}
    /\ h[Last(About(h, k))].op = SET
    /\ h[Last(About(h, k))].value = v

\* k was never set among the calls h, or its most recent mutation is a delete.
NeverSetOrDeleted(h, k) ==
    \/ \A n \in About(h, k) : h[n].op = DELETE
    \/ h[Last(About(h, k))].op = DELETE

\* The records the calls h contribute, in call order: one SET record for
\* every set, one DELETE record with an empty value for every delete of a
\* key that is present (its most recent mutation before the call is a set).
RECURSIVE ExpectedRecords(_)
ExpectedRecords(h) ==
    IF h = <<>> THEN <<>>
    ELSE LET before == SubSeq(h, 1, Len(h) - 1)
             call == h[Len(h)]
         IN  IF call.op = SET \/ ~NeverSetOrDeleted(before, call.key)
             THEN Append(ExpectedRecords(before), call)
             ELSE ExpectedRecords(before)

Contents(records) == [n \in 1..Len(records) |->
    [op |-> records[n].op, key |-> records[n].key, value |-> records[n].value]]

\* The engine in use is open.
InUse == status[current] = "open"

\* C1: last-write-wins read.  On the engine in use, when the most recent
\* mutation of key k is set(k, v), get(k) returns exactly v: both for the
\* get that has just run and for the get any key would get now.
C1_LastWriteWins ==
    /\ (last.op = "get" /\ last.inst = current) =>
          \A v \in Values : LastIsSet(hist, last.key, v) =>
              (last.outcome = "ok" /\ last.value = v)
    /\ InUse => \A k \in Keys, v \in Values : LastIsSet(hist, k, v) =>
          LET got == GetResult(index[current], file, k)
          IN  got.outcome = "ok" /\ got.value = v

\* C1 witness: set(k, v1); delete(k); set(k, v2); get(k) has returned v2,
\* for the empty key and the empty value.
C1_Witness ==
    /\ last.op = "get" /\ last.key = <<>> /\ last.outcome = "ok" /\ last.value = <<>>
    /\ Len(hist) = 3
    /\ hist[1] = [op |-> SET, key |-> <<>>, value |-> <<2>>]
    /\ hist[2] = [op |-> DELETE, key |-> <<>>, value |-> <<>>]
    /\ hist[3] = [op |-> SET, key |-> <<>>, value |-> <<>>]

\* C2: get(k) fails with KeyNotFound for the key asked, and with no other
\* error, whenever k was never set on this log or its most recent mutation
\* is a delete; so every get on an engine opened over an empty or absent
\* file fails with KeyNotFound.
C2_AbsentKeyNotFound ==
    /\ (last.op = "get" /\ last.inst = current /\ NeverSetOrDeleted(hist, last.key)) =>
          last.outcome = "KeyNotFound"
    /\ InUse => \A k \in Keys : NeverSetOrDeleted(hist, k) =>
          GetResult(index[current], file, k).outcome = "KeyNotFound"

\* C2 witness: set(k, v); delete(k); get(k) has failed with KeyNotFound.
C2_Witness ==
    /\ last.op = "get" /\ last.outcome = "KeyNotFound"
    /\ Len(hist) = 2
    /\ hist[1].op = SET /\ hist[1].key = last.key
    /\ hist[2].op = DELETE /\ hist[2].key = last.key

\* C3: delete(k) of a key absent from the index returns successfully,
\* appends nothing (the file is byte-identical) and leaves the index as it
\* was.
C3_DeleteAbsentIsNoOp ==
    [][(last'.op = "delete" /\ ~IndexHas(index[last'.inst], last'.key)) =>
          (file' = file /\ index' = index /\ last'.outcome = "ok")]_vars

\* C3 witness: delete(k); delete(k) on a key that was set before, the second
\* delete finding k absent, over a log that holds the set and one delete.
C3_Witness ==
    /\ last.op = "delete" /\ last.outcome = "ok"
    /\ Len(hist) = 3
    /\ hist[1].op = SET /\ hist[1].key = last.key
    /\ hist[2].op = DELETE /\ hist[2].key = last.key
    /\ hist[3].op = DELETE /\ hist[3].key = last.key
    /\ Len(ScanFrom(file, 0)) = 2
    /\ ~IndexHas(index[last.inst], last.key)

\* C4: persistence across instances.  An engine that has just been opened
\* with a fresh index over the file another engine wrote gives, for every
\* key, the get outcome the writing engine gives: the same value, or
\* KeyNotFound.
C4_Persistence ==
    (last.op = "open" /\ last.outcome = "ok") =>
        \A j \in Instances \ {last.inst} : status[j] = "open" =>
            \A k \in Keys :
                LET mine == GetResult(index[last.inst], file, k)
                    theirs == GetResult(index[j], file, k)
                IN  /\ mine.outcome = theirs.outcome
                    /\ mine.value = theirs.value
                    /\ mine.outcome \in {"ok", "KeyNotFound"}

\* C4 witness: engine A did set(a, 1); set(b, 2); delete(a), engine B has
\* just been opened over the file and holds b but not a.
C4_Witness ==
    /\ last.op = "open" /\ last.inst = "B" /\ status["A"] = "open"
    /\ Len(hist) = 3
    /\ hist[1].op = SET /\ hist[2].op = SET /\ hist[3].op = DELETE
    /\ hist[1].key = hist[3].key /\ hist[2].key # hist[1].key
    /\ DOMAIN index["B"] = {hist[2].key}
    /\ GetResult(index["B"], file, hist[2].key).value = hist[2].value

\* I1 for index ix over the log data: ix maps k to o iff the last record
\* for k in the log, scanned from offset 0, is a SET record starting at o.
I1(ix, data) ==
    LET records == ScanFrom(data, 0)
    IN  \A k \in Keys :
            LET about == About(records, k)
            IN  IF about # {} /\ records[Last(about)].op = SET
                THEN IndexHas(ix, k) /\ IndexGet(ix, k) = records[Last(about)].offset
                ELSE ~IndexHas(ix, k)

\* C5: index/log consistency (I1) holds of the engine in use after its open
\* with an empty index and after every completed set, delete and get, and
\* the index holds no key that has no record.
C5_IndexLogConsistency ==
    InUse => /\ I1(index[current], file)
             /\ DOMAIN index[current] \subseteq Keys

\* C5 witness: after a set that moved a key to a second record, with a
\* deleted key in the log as well.
C5_Witness ==
    /\ InUse /\ last.op = "set"
    /\ Len(hist) = 3
    /\ hist[1].op = SET /\ hist[2].op = DELETE /\ hist[3].op = SET
    /\ hist[1].key = hist[2].key /\ hist[3].key = hist[1].key
    /\ IndexGet(index[current], last.key) > 0

\* C6: the log only grows.  In every step the file before is a byte prefix
\* of the file after; a set, and a delete of a key present in the index,
\* make it strictly longer.
C6_LogOnlyGrows ==
    [][/\ IsPrefix(file, file')
       /\ last'.op = "set" => Len(file') > Len(file)
       /\ (last'.op = "delete" /\ IndexHas(index[last'.inst], last'.key)) =>
              Len(file') > Len(file)]_vars

\* C6 witness: a delete of a present key has grown a log of two records to
\* three.
C6_Witness ==
    /\ last.op = "delete" /\ last.offset > 0
    /\ Len(file) > last.offset
    /\ Len(ScanFrom(file, 0)) = 3

\* C7: order preservation.  The records a scan of the log from offset 0
\* decodes are, in call order, the mutations applied: one SET record (k, v)
\* for every set, also one that repeats the value held, one DELETE record
\* with key k and an empty value for every delete of a present key, and no
\* record for anything else; and the scan reaches the end of the file.
C7_OrderPreserved ==
    LET records == ScanFrom(file, 0)
    IN  /\ Contents(records) = ExpectedRecords(hist)
        /\ FromStream(file, IF records = <<>> THEN 0
                            ELSE LET r == records[Len(records)]
                                 IN  r.offset + STRUCT_size + Len(r.key) + Len(r.value)).kind = "none"

\* C7 witness: set(k, v); set(k, v); delete(k) and a get have left three
\* records, the two equal sets included.
C7_Witness ==
    /\ last.op = "get"
    /\ Len(hist) = 3
    /\ hist[1].op = SET /\ hist[2] = hist[1]
    /\ hist[3].op = DELETE /\ hist[3].key = hist[1].key
    /\ Len(ScanFrom(file, 0)) = 3

\* C8: key independence.  A set or a delete of key k never changes what
\* get answers for another key: the same value, or still KeyNotFound.
C8_KeyIndependence ==
    [][(last'.op \in {"set", "delete"}) =>
          \A k \in Keys \ {last'.key} :
              LET before == GetResult(index[last'.inst], file, k)
                  after == GetResult(index'[last'.inst], file', k)
              IN  /\ after.outcome = before.outcome
                  /\ after.value = before.value
                  /\ after.outcome \in {"ok", "KeyNotFound"}]_vars

\* C8 witness: the empty key has been set and deleted while key <<2>>, of
\* which it is a byte prefix, stays set and readable.
C8_Witness ==
    /\ last.op = "delete" /\ last.key = <<>>
    /\ Len(hist) = 3 /\ Len(ScanFrom(file, 0)) = 3
    /\ ~IndexHas(index[last.inst], <<>>)
    /\ IndexHas(index[last.inst], <<2>>)
    /\ GetResult(index[last.inst], file, <<2>>).outcome = "ok"

\* C9: opening an engine over a log of complete records followed by a torn
\* or undecodable tail (partial header, partial payload, unknown operation
\* tag) fails with Corrupted at the end of the last good record, the start
\* of the first record that does not decode; the open leaves the file as
\* it is, and the scan decodes every record before that offset as it was
\* written.
C9_TornTailFailsOpen ==
    [][(last'.op = "open" /\ tail.kind = "torn") =>
          /\ last'.outcome = "Corrupted"
          /\ last'.offset = GoodEnd(tail.good)
          /\ status'[last'.inst] = "failed"
          /\ file' = file
          /\ ScanFrom(file', 0) = tail.good
          /\ IsPrefix(Contents(tail.good), ExpectedRecords(hist))]_vars

\* C9 witness: an open has failed with Corrupted at the end of the one good
\* record of a log whose second record lost its last payload byte.
C9_Witness ==
    /\ last.op = "open" /\ last.outcome = "Corrupted"
    /\ tail.kind = "torn" /\ Len(tail.good) = 1
    /\ last.offset = GoodEnd(tail.good)
    /\ Len(hist) = 2 /\ hist[2].op = SET
    /\ Len(file) = last.offset + STRUCT_size + Len(hist[2].key) + Len(hist[2].value) - 1
    /\ Len(file) > last.offset + STRUCT_size

\* C10: self-healing read.  Whenever get(k) fails with InvalidOffset, the
\* index entry for k has been evicted, so that a repeated get(k) fails with
\* KeyNotFound, and the log is not modified.
C10_InvalidOffsetEvicts ==
    [][(last'.op = "get" /\ last'.outcome = "InvalidOffset") =>
          /\ ~IndexHas(index'[last'.inst], last'.key)
          /\ GetResult(index'[last'.inst], file', last'.key).outcome = "KeyNotFound"
          /\ file' = file]_vars

\* C11: when the record get(k) decodes at the indexed offset is a DELETE
\* record, also one whose key is k, get returns no value: it evicts the
\* index entry for k and fails with InvalidOffset.
C11_DeleteRecordIsInvalidOffset ==
    [][(/\ last'.op = "get"
        /\ IndexHas(index[last'.inst], last'.key)
        /\ FromStream(file, IndexGet(index[last'.inst], last'.key)).kind = "record"
        /\ FromStream(file, IndexGet(index[last'.inst], last'.key)).op = DELETE) =>
          /\ last'.outcome = "InvalidOffset"
          /\ ~IndexHas(index'[last'.inst], last'.key)]_vars

\* The bytes the records take when every header takes `header` bytes.
RECURSIVE SizeSum(_, _)
SizeSum(records, header) ==
    IF records = <<>> THEN 0
    ELSE header + Len(Head(records).key) + Len(Head(records).value)
            + SizeSum(Tail(records), header)

\* C12: size accounting.  Every record takes 17 + key_size + value_size
\* bytes: the file is as long as the sum of 17 + len(key) + len(value) over
\* the records written, and every record starts where the record before it
\* ends.
C12_SizeAccounting ==
    LET written == ExpectedRecords(hist)
        records == ScanFrom(file, 0)
    IN  /\ Len(file) = SizeSum(written, 17)
        /\ Len(records) = Len(written)
        /\ \A n \in 1..Len(records) :
              records[n].offset = SizeSum(SubSeq(written, 1, n - 1), 17)

\* The records a round trip is checked for: both operations, keys of zero
\* to two bytes, empty and non-empty values.
WellFormed == [op : {SET, DELETE}, key : Keys \cup TamperKeys, value : Values]

\* C13: codec round trip.  A well-formed record R encoded at the end p of
\* the log decodes from p to R, the stream then being at
\* p + record_size(R), the end of the record, where nothing more is decoded;
\* and the records of the log decode one after the other, each from the
\* position the one before it left the stream at, up to the end of the file.
C13_CodecRoundTrip ==
    /\ \A R \in WellFormed :
           LET p == Len(file)
               data == ToStream(file, R.op, R.key, R.value)
               decoded == FromStream(data, p)
           IN  /\ decoded.kind = "record"
               /\ decoded.offset = p
               /\ [op |-> decoded.op, key |-> decoded.key, value |-> decoded.value] = R
               /\ decoded.next = p + STRUCT_size + Len(R.key) + Len(R.value)
               /\ decoded.next = Len(data)
               /\ FromStream(data, decoded.next).kind = "none"
    /\ LET records == ScanFrom(file, 0)
           written == ExpectedRecords(hist)
       IN  /\ Contents(records) = written
           /\ \A n \in 1..Len(records) :
                 /\ records[n].offset = IF n = 1 THEN 0 ELSE RecordEnd(records[n - 1])
                 /\ FromStream(file, records[n].offset).next = RecordEnd(records[n])
           /\ Len(file) = IF records = <<>> THEN 0 ELSE RecordEnd(records[Len(records)])

\* C13 witness: a third record, with an empty key and a value of one byte,
\* has been encoded behind two records of different sizes and get has
\* decoded it from its offset.
C13_Witness ==
    /\ last.op = "get" /\ last.outcome = "ok" /\ last.key = <<>> /\ last.value = <<2>>
    /\ Len(hist) = 3
    /\ hist[1] = [op |-> SET, key |-> <<2>>, value |-> <<2>>]
    /\ hist[2] = [op |-> DELETE, key |-> <<2>>, value |-> <<>>]
    /\ last.offset = (STRUCT_size + 2) + (STRUCT_size + 1)
    /\ FromStream(file, last.offset).next = Len(file)

(***************************************************************************)
(* The key index on its own: calls of has, set, get and delete on one      *)
(* index object, index["A"], with no engine and no file.                   *)
(***************************************************************************)
\* The offsets stored: a 64-bit offset is written <<high, low>>, its two
\* 32-bit words, so <<0, 0>> is offset 0 and <<1, 0>> is offset 2^32.
Offsets == { <<0, 0>>, <<0, 12345>>, <<1, 0>> }

IndexCall(op, key, offset, outcome) ==
    [inst |-> "A", op |-> op, key |-> key, arg |-> offset, outcome |-> outcome,
     value |-> <<>>, offset |-> 0]

\* index.has(key)
InMemoryIndexHas(key) ==
    /\ last' = IndexCall("index.has", key, <<>>,
                         IF IndexHas(index["A"], key) THEN "true" ELSE "false")
    /\ UNCHANGED <<handles, file, exists, index, status, current, hist, tail>>

\* index.set(key, offset)
InMemoryIndexSet(key, offset) ==
    /\ index' = [index EXCEPT !["A"] = IndexSet(index["A"], key, offset)]
    /\ hist' = Append(hist, [op |-> SET, key |-> key, value |-> offset])
    /\ last' = IndexCall("index.set", key, offset, "ok")
    /\ UNCHANGED <<handles, file, exists, status, current, tail>>

\* index.get(key)
InMemoryIndexGet(key) ==
    LET got == IndexGetResult(index["A"], key)
    IN  /\ last' = IndexCall("index.get", got.key, got.offset, got.outcome)
        /\ UNCHANGED <<handles, file, exists, index, status, current, hist, tail>>

\* index.delete(key)
InMemoryIndexDelete(key) ==
    /\ index' = [index EXCEPT !["A"] = IndexDelete(index["A"], key)]
    /\ hist' = Append(hist, [op |-> DELETE, key |-> key, value |-> <<>>])
    /\ last' = IndexCall("index.delete", key, <<>>, "ok")
    /\ UNCHANGED <<handles, file, exists, status, current, tail>>

NextIndex ==
    \/ \E k \in Keys : InMemoryIndexHas(k)
    \/ \E k \in Keys : InMemoryIndexGet(k)
    \/ \E k \in Keys, o \in Offsets : Len(hist) < MaxOps /\ InMemoryIndexSet(k, o)
    \/ \E k \in Keys : Len(hist) < MaxOps /\ InMemoryIndexDelete(k)

SpecIndex == Init /\ [][NextIndex]_vars

\* C14: the key index is a last-write-wins map.  has(k) is true exactly
\* when the most recent set or delete of k is a set; get(k) then returns
\* the offset of that set as it was given, offset 0 and offsets from 2^32
\* included, and fails with KeyNotFound carrying k when k is absent; the
\* answers has and get have just given agree with that; and delete of an
\* absent key is a silent no-op.
C14_IndexLastWriteWins ==
    /\ [](\A k \in Keys :
            /\ IndexHas(index["A"], k) <=> \E o \in Offsets : LastIsSet(hist, k, o)
            /\ \A o \in Offsets : LastIsSet(hist, k, o) =>
                  IndexGetResult(index["A"], k) = [outcome |-> "ok", key |-> k, offset |-> o]
            /\ NeverSetOrDeleted(hist, k) =>
                  /\ IndexGetResult(index["A"], k).outcome = "KeyNotFound"
                  /\ IndexGetResult(index["A"], k).key = k
            /\ (last.op = "index.has" /\ last.key = k) =>
                  (last.outcome = "true" <=> \E o \in Offsets : LastIsSet(hist, k, o))
            /\ (last.op = "index.get" /\ last.key = k) =>
                  /\ \A o \in Offsets : LastIsSet(hist, k, o) =>
                        (last.outcome = "ok" /\ last.arg = o)
                  /\ NeverSetOrDeleted(hist, k) => last.outcome = "KeyNotFound")
    /\ [][(last'.op = "index.delete" /\ ~IndexHas(index["A"], last'.key)) =>
             (index' = index /\ last'.outcome = "ok")]_vars

\* C14 witness: set(k, 0); delete(k); set(k, 2^32) on the empty
\* key, and get(k) has returned 2^32.
C14_Witness ==
    /\ last.op = "index.get" /\ last.key = <<>> /\ last.outcome = "ok"
    /\ last.arg = <<1, 0>>
    /\ Len(hist) = 3
    /\ hist[1] = [op |-> SET, key |-> <<>>, value |-> <<0, 0>>]
    /\ hist[2] = [op |-> DELETE, key |-> <<>>, value |-> <<>>]
    /\ hist[3] = [op |-> SET, key |-> <<>>, value |-> <<1, 0>>]
    /\ ~IndexHas(index["A"], <<2>>)

(***************************************************************************)
(* Several engines over one path.  Every engine constructed stays usable  *)
(* with the index it built, and the engines take turns: each call runs to *)
(* its end before the next one, of any engine, begins.                    *)
(***************************************************************************)
NextMulti ==
    \/ \E i \in Instances : Open(i, EmptyIndex)
    \/ \E i \in Instances, k \in Keys : Get(i, k)
    \/ \E i \in Instances, k \in Keys, v \in Values :
          Len(hist) < MaxMultiOps /\ Set(i, k, v)
    \/ \E i \in Instances, k \in Keys : Len(hist) < MaxMultiOps /\ Delete(i, k)

SpecMulti == Init /\ [][NextMulti]_vars

\* What get(k) gives by the records alone: the value of the last record of
\* k when that is a SET record, else KeyNotFound.
ByRecords(records, k) ==
    IF About(records, k) # {} /\ records[Last(About(records, k))].op = SET
    THEN [outcome |-> "ok", value |-> records[Last(About(records, k))].value]
    ELSE [outcome |-> "KeyNotFound", value |-> <<>>]

\* A set or delete call has written its record at the end of the file, and
\* the log decodes to the records it held followed by that record.
AppendedAtEnd ==
    /\ last'.offset = Len(file)
    /\ IsPrefix(file, file')
    /\ GoodEnd(ScanFrom(file', 0)) = Len(file')
    /\ Contents(ScanFrom(file', 0)) =
          Append(Contents(ScanFrom(file, 0)),
                 [op |-> IF last'.op = "set" THEN SET ELSE DELETE,
                  key |-> last'.key, value |-> last'.arg])

\* C15: sequential writes by several engines over one path keep full
\* integrity.  Every set, and every delete, lands as a record at the
\* then-current end of the file, the log being the records of the calls in
\* their global order with none overwritten, and an engine opened
\* afterwards gives for every key the outcome of the globally last
\* mutation of that key: the value of the last set, KeyNotFound after a
\* delete.
C15_SequentialWriters ==
    /\ [][(last'.op = "set" \/ (last'.op = "delete" /\ ~NeverSetOrDeleted(hist, last'.key)))
             => AppendedAtEnd]_vars
    /\ [](last.op = "open" =>
            /\ last.outcome = "ok"
            /\ \A k \in Keys :
                  /\ \A v \in Values : LastIsSet(hist, k, v) =>
                        /\ GetResult(index[last.inst], file, k).outcome = "ok"
                        /\ GetResult(index[last.inst], file, k).value = v
                  /\ NeverSetOrDeleted(hist, k) =>
                        GetResult(index[last.inst], file, k).outcome = "KeyNotFound")

\* C15 as amended: a delete writes a record only when the index of the
\* engine it is called on holds the key.  Every set, and every such delete,
\* lands as a record at the then-current end of the file, the log being
\* those records in the global order of the calls with none overwritten; a
\* delete on an engine whose index does not hold the key leaves the file as
\* it is; and an engine opened afterwards gives for every key the outcome
\* of the last record of that key in the log.
C15_SequentialWritersAmended ==
    /\ [][/\ (last'.op = "set" \/ (last'.op = "delete" /\ IndexHas(index[last'.inst], last'.key)))
                => AppendedAtEnd
          /\ (last'.op = "delete" /\ ~IndexHas(index[last'.inst], last'.key))
                => file' = file]_vars
    /\ [](last.op = "open" =>
            /\ last.outcome = "ok"
            /\ \A k \in Keys :
                  LET got == GetResult(index[last.inst], file, k)
                  IN  [outcome |-> got.outcome, value |-> got.value]
                         = ByRecords(ScanFrom(file, 0), k))

\* C15 witness: engine A has set k after engine B was opened, B has then
\* deleted k, which its index does not hold, and an engine has been opened
\* afterwards: the log holds the one SET record and the engine gives the
\* value.
C15_Witness ==
    /\ last.op = "open" /\ last.outcome = "ok"
    /\ Len(hist) = 2
    /\ hist[1] = [op |-> SET, key |-> <<2>>, value |-> <<2>>]
    /\ hist[2] = [op |-> DELETE, key |-> <<2>>, value |-> <<>>]
    /\ Len(ScanFrom(file, 0)) = 1
    /\ GetResult(index[last.inst], file, <<2>>).outcome = "ok"
    /\ GetResult(index[last.inst], file, <<2>>).value = <<2>>

(***************************************************************************)
(* The decoder on its own: from_stream applied at every position of a      *)
(* stream that holds records, a record cut at any length, or bytes that    *)
(* are no record.                                                          *)
(***************************************************************************)
\* Streams the cuts are taken of: two records one after the other, a record
\* with a key of two bytes, a DELETE record followed by a header with an
\* unknown operation tag, and a header whose key_size has a high byte set.
Streams ==
    { ToStream(ToStream(<<>>, SET, <<1>>, <<2>>), DELETE, <<1>>, <<>>),
      ToStream(<<>>, SET, <<1, 2>>, <<>>),
      ToStream(<<>>, DELETE, <<>>, <<>>) \o HeaderToBytes(2, 0, 0),
      <<SET>> \o Zeros(KeySizeAt - 1) \o <<1, 0, 0, 0, 1, 0, 0, 0>> \o U64ToBytes(0) \o <<1>> }

DecodeInputs == UNION { { SubSeq(d, 1, n) : n \in 0..Len(d) } : d \in Streams }

InitDecode ==
    /\ file \in DecodeInputs
    /\ exists = TRUE
    /\ index = [i \in Instances |-> EmptyIndex]
    /\ status = [i \in Instances |-> "none"]
    /\ current = "A"
    /\ last = NoOp
    /\ hist = <<>>
    /\ tail = Clean
    /\ handles = [i \in Instances |-> 0]

\* AppendOnlyLogRecord.from_stream(stream) with the stream at position p.
Decode(p) ==
    LET decoded == FromStream(file, p)
    IN  /\ last' = [inst |-> "A", op |-> "decode", key |-> decoded.key, arg |-> <<>>,
                    outcome |-> decoded.kind, value |-> decoded.value, offset |-> p,
                    error_offset |-> decoded.offset, next |-> decoded.next]
        /\ UNCHANGED <<handles, file, exists, index, status, current, hist, tail>>

NextDecode == \E p \in 0..Len(file) : Decode(p)

SpecDecode == InitDecode /\ [][NextDecode]_vars

\* C16: outcomes of decoding at position p.  'No more records' is returned
\* exactly when zero bytes remain at p.  The decode fails with Corrupted
\* carrying offset p when 1 to 16 bytes remain, when the operation tag is
\* neither 0 nor 1, and when fewer than key_size + value_size bytes follow
\* the header; and every failure is Corrupted with offset p, the position
\* the decode started at.
C16_DecodeOutcomes ==
    last.op = "decode" =>
        LET p == last.offset
            left == Len(file) - p
            corrupted == last.outcome = "corrupted" /\ last.error_offset = p
            sizes == HeaderFromBytes(SubSeq(file, p + 1, p + STRUCT_size))
        IN  /\ last.outcome = "none" <=> left = 0
            /\ (left >= 1 /\ left <= 16) => corrupted
            /\ (left >= STRUCT_size /\ file[p + 1] \notin {SET, DELETE}) => corrupted
            /\ (left >= STRUCT_size /\ left - STRUCT_size < sizes.key_size + sizes.value_size)
                  => corrupted
            /\ last.outcome \in {"none", "corrupted", "record"}
            /\ last.outcome # "record" => (last.outcome = "none" \/ corrupted)

\* C16 witness: behind one whole record, ten bytes of the next header are
\* left and the decode at the start of that header has failed with
\* Corrupted at that position.
C16_Witness ==
    /\ last.op = "decode" /\ last.outcome = "corrupted"
    /\ last.offset = STRUCT_size + 2
    /\ last.error_offset = last.offset
    /\ Len(file) = last.offset + 10
    /\ FromStream(file, 0).kind = "record"

(***************************************************************************)
(* Appends that fail.  _append_record opens the file for appending and     *)
(* to_stream writes the header and then the payload; any of the three may  *)
(* raise an I/O error, each write being all or nothing.  The error leaves  *)
(* _append_record and set or delete with it.                               *)
(***************************************************************************)
Stages == { "open", "write header", "write payload" }

\* The file after _append_record has raised at the stage given: when the
\* write of the payload raises, the header has been written.
AppendRecordIOError(data, op, key, value, stage) ==
    IF stage = "write payload"
    THEN data \o HeaderToBytes(op, Len(key), Len(value))
    ELSE data

\* The tail of the file after an append that may have left bytes behind.
AfterIOError(t, before, after) ==
    IF after = before THEN t
    ELSE IF t.kind = "clean" THEN [kind |-> "torn", good |-> ScanFrom(before, 0)]
    ELSE AfterAppend(t)

\* Mutant of SetIOError: the index entry is made before the record is
\* appended.
SetIOErrorIndexFirst(i, key, value, stage) ==
    LET data == AppendRecordIOError(file, SET, key, value, stage)
    IN  /\ status[i] = "open"
        /\ file' = data
        /\ index' = [index EXCEPT ![i] = IndexSet(index[i], key, Len(file))]
        /\ last' = [inst |-> i, op |-> "set", key |-> key, arg |-> value,
                    outcome |-> "IOError", value |-> <<>>, offset |-> Len(file)]
        /\ tail' = AfterIOError(tail, file, data)
        /\ handles' = [handles EXCEPT ![i] = IF stage = "open" THEN handles[i] ELSE WithOpen(handles[i], TRUE)]
        /\ UNCHANGED <<exists, status, current, hist>>

\* set(key, value) when _append_record raises: index.set is not reached.
SetIOError(i, key, value, stage) ==
    LET data == AppendRecordIOError(file, SET, key, value, stage)
    IN  /\ status[i] = "open"
        /\ file' = data
        /\ last' = [inst |-> i, op |-> "set", key |-> key, arg |-> value,
                    outcome |-> "IOError", value |-> <<>>, offset |-> Len(file)]
        /\ tail' = AfterIOError(tail, file, data)
        /\ handles' = [handles EXCEPT ![i] = IF stage = "open" THEN handles[i] ELSE WithOpen(handles[i], TRUE)]
        /\ UNCHANGED <<exists, index, status, current, hist>>

\* delete(key) of a key the index holds when _append_record raises:
\* index.delete is not reached.
DeleteIOError(i, key, stage) ==
    LET data == AppendRecordIOError(file, DELETE, key, <<>>, stage)
    IN  /\ status[i] = "open"
        /\ IndexHas(index[i], key)
        /\ file' = data
        /\ last' = [inst |-> i, op |-> "delete", key |-> key, arg |-> <<>>,
                    outcome |-> "IOError", value |-> <<>>, offset |-> Len(file)]
        /\ tail' = AfterIOError(tail, file, data)
        /\ handles' = [handles EXCEPT ![i] = IF stage = "open" THEN handles[i] ELSE WithOpen(handles[i], TRUE)]
        /\ UNCHANGED <<exists, index, status, current, hist>>

\* The key of the runs with failing appends.
FaultKeys == { <<2>> }

\* One engine at a time, as in Next.  At most one failed append of a run
\* leaves bytes in the file.
NextIO ==
    \/ \E i \in Instances : (status[current] = "none" \/ i # current) /\ Open(i, EmptyIndex)
    \/ \E k \in FaultKeys : Get(current, k)
    \/ \E k \in FaultKeys, v \in Values : Len(hist) < MaxFaultOps /\ Set(current, k, v)
    \/ \E k \in FaultKeys : Len(hist) < MaxFaultOps /\ Delete(current, k)
    \/ \E k \in FaultKeys, v \in Values, stage \in Stages :
          /\ stage = "write payload" => tail.kind = "clean"
          /\ SetIOError(current, k, v, stage)
    \/ \E k \in FaultKeys, stage \in Stages :
          /\ stage = "write payload" => tail.kind = "clean"
          /\ DeleteIOError(current, k, stage)

SpecIO == Init /\ [][NextIO]_vars

\* C17: the index is updated only after the append has returned success.
\* A set or delete whose append fails with an I/O error leaves the index
\* exactly as it was; a set that succeeds maps the key to the offset of the
\* complete record it has appended, and a delete that removes an entry has
\* appended its record.
C17_IndexAfterAppend ==
    [][/\ (last'.op \in {"set", "delete"} /\ last'.outcome = "IOError") => index' = index
       /\ (last'.op = "set" /\ last'.outcome = "ok") =>
             LET decoded == FromStream(file', IndexGet(index'[last'.inst], last'.key))
             IN  /\ IndexGet(index'[last'.inst], last'.key) = Len(file)
                 /\ decoded.kind = "record" /\ decoded.op = SET
                 /\ decoded.key = last'.key /\ decoded.value = last'.arg
                 /\ decoded.next = Len(file')
       /\ (last'.op = "delete" /\ last'.outcome = "ok" /\ index' # index) =>
             LET decoded == FromStream(file', Len(file))
             IN  /\ decoded.kind = "record" /\ decoded.op = DELETE
                 /\ decoded.key = last'.key
                 /\ decoded.next = Len(file')]_vars

\* C17 witness: set(k, v) has succeeded, and a set of another value for k
\* has then failed with the header written: the index still maps k to the
\* first record.
C17_Witness ==
    /\ last.op = "set" /\ last.outcome = "IOError" /\ last.key = <<2>> /\ last.arg = <<>>
    /\ hist = <<[op |-> SET, key |-> <<2>>, value |-> <<2>>]>>
    /\ IndexGet(index[last.inst], <<2>>) = 0
    /\ Len(file) = (STRUCT_size + 2) + STRUCT_size
    /\ tail.kind = "torn"

\* C19: a set or delete that fails with an I/O error, every single write
\* being all or nothing, leaves the log file unchanged, so that the log
\* holds no record that is partly present (a header without its payload).
C19_FailedAppendLeavesLog ==
    [][(last'.op \in {"set", "delete"} /\ last'.outcome = "IOError") =>
          /\ file' = file
          /\ GoodEnd(ScanFrom(file', 0)) = Len(file')]_vars

\* C18: Corrupted does not mutate the index.  When get(k), or the scan of
\* the log during open, fails with Corrupted, the index holds exactly the
\* entries it held when the operation began: none added, removed or
\* changed.
C18_CorruptedKeepsIndex ==
    [][(last'.op \in {"get", "open"} /\ last'.outcome = "Corrupted") =>
          index'[last'.inst] = index[last'.inst]]_vars

(***************************************************************************)
(* The process stops.  A set or delete has appended its record, and the    *)
(* process ends before the index call: every engine object and its index   *)
(* are gone, the file stays.                                               *)
(***************************************************************************)
Stopped == [i \in Instances |-> IF status[i] = "none" THEN "none" ELSE "stopped"]

\* set(key, value), the process stopping between _append_record and
\* index.set.
SetCrash(i, key, value) ==
    LET appended == AppendRecord(file, SET, key, value)
    IN  /\ status[i] = "open"
        /\ file' = appended.data
        /\ index' = [j \in Instances |-> EmptyIndex]
        /\ status' = Stopped
        /\ last' = [inst |-> i, op |-> "set", key |-> key, arg |-> value,
                    outcome |-> "stopped", value |-> <<>>, offset |-> appended.offset]
        /\ hist' = Append(hist, [op |-> SET, key |-> key, value |-> value])
        /\ tail' = AfterAppend(tail)
        /\ handles' = [j \in Instances |-> 0]
        /\ UNCHANGED <<exists, current>>

\* delete(key) of a key the index holds, the process stopping between
\* _append_record and index.delete.
DeleteCrash(i, key) ==
    LET appended == AppendRecord(file, DELETE, key, <<>>)
    IN  /\ status[i] = "open"
        /\ IndexHas(index[i], key)
        /\ file' = appended.data
        /\ index' = [j \in Instances |-> EmptyIndex]
        /\ status' = Stopped
        /\ last' = [inst |-> i, op |-> "delete", key |-> key, arg |-> <<>>,
                    outcome |-> "stopped", value |-> <<>>, offset |-> appended.offset]
        /\ hist' = Append(hist, [op |-> DELETE, key |-> key, value |-> <<>>])
        /\ tail' = AfterAppend(tail)
        /\ handles' = [j \in Instances |-> 0]
        /\ UNCHANGED <<exists, current>>

\* One engine at a time, as in Next; after the process has stopped, a new
\* process constructs an engine over the file.
NextCrash ==
    \/ \E i \in Instances : (status[current] # "open" \/ i # current) /\ Open(i, EmptyIndex)
    \/ \E k \in Keys : Get(current, k)
    \/ \E k \in Keys, v \in Values : Len(hist) < MaxFaultOps /\ Set(current, k, v)
    \/ \E k \in Keys : Len(hist) < MaxFaultOps /\ Delete(current, k)
    \/ \E k \in Keys, v \in Values : Len(hist) < MaxFaultOps /\ SetCrash(current, k, v)
    \/ \E k \in Keys : Len(hist) < MaxFaultOps /\ DeleteCrash(current, k)

SpecCrash == Init /\ [][NextCrash]_vars

\* C20: crash recovery.  When the process has stopped after a set or
\* delete appended its record completely and before the index was updated,
\* the next open over the file succeeds and its index satisfies I1, that
\* last record included: the key of a set is at the offset of the record,
\* the key of a delete is absent.
C20_CrashRecovery ==
    [][(last.outcome = "stopped" /\ last'.op = "open") =>
          LET records == ScanFrom(file', 0)
              ix == index'[last'.inst]
          IN  /\ last'.outcome = "ok"
              /\ I1(ix, file')
              /\ records # <<>>
              /\ records[Len(records)] =
                    [op |-> IF last.op = "set" THEN SET ELSE DELETE,
                     key |-> last.key, value |-> last.arg, offset |-> last.offset]
              /\ RecordEnd(records[Len(records)]) = Len(file')
              /\ last.op = "set" =>
                    (IndexHas(ix, last.key) /\ IndexGet(ix, last.key) = last.offset)
              /\ last.op = "delete" => ~IndexHas(ix, last.key)]_vars

\* C20 witness: set(k, v) has completed, a set of another value for k has
\* appended its record and the process has stopped; the engine a new
\* process has opened holds k at the second record and gives that value.
C20_Witness ==
    /\ last.op = "open" /\ last.outcome = "ok" /\ last.inst = "B"
    /\ status["A"] = "stopped"
    /\ hist = <<[op |-> SET, key |-> <<2>>, value |-> <<2>>],
                [op |-> SET, key |-> <<2>>, value |-> <<>>]>>
    /\ IndexGet(index["B"], <<2>>) = STRUCT_size + 2
    /\ GetResult(index["B"], file, <<2>>).value = <<>>

(***************************************************************************)
(* Engines constructed with an index object that is in use: __init__ takes *)
(* the object as it is and runs the scan on it.                            *)
(***************************************************************************)
\* The index objects a caller supplies: a fresh one, one that holds a key
\* at offset 0, and one that holds both keys.
SuppliedIndexes ==
    { EmptyIndex,
      IndexSet(EmptyIndex, <<2>>, 0),
      IndexSet(IndexSet(EmptyIndex, <<>>, 0), <<2>>, STRUCT_size) }

\* One engine at a time, as in Next.
NextSupplied ==
    \/ \E i \in Instances, index0 \in SuppliedIndexes :
          (status[current] = "none" \/ i # current) /\ Open(i, index0)
    \/ \E k \in Keys : Get(current, k)
    \/ \E k \in Keys, v \in Values : Len(hist) < MaxSuppliedOps /\ Set(current, k, v)
    \/ \E k \in Keys : Len(hist) < MaxSuppliedOps /\ Delete(current, k)

SpecSupplied == Init /\ [][NextSupplied]_vars

\* C21: on construction the index is rebuilt from the log.  After a
\* successful open the index is what replaying the log from offset 0 on
\* the empty map gives (set on SET, delete on DELETE), whatever the index
\* object supplied held before; a key with no record in the log is absent
\* from the index.
C21_IndexRebuiltFromLog ==
    [][(last'.op = "open" /\ last'.outcome = "ok") =>
          /\ index'[last'.inst] = BuildIndex(file', EmptyIndex).index
          /\ \A k \in Keys : About(ScanFrom(file', 0), k) = {} =>
                ~IndexHas(index'[last'.inst], k)]_vars

(***************************************************************************)
(* Every way an operation ends: appends that fail, and a file that is cut  *)
(* from outside, so that open and get meet a torn record or the end of the *)
(* file at an indexed offset.                                              *)
(***************************************************************************)
NextHandles ==
    \/ NextIO
    \/ \E n \in CutPoints(file) : ExternalTruncate(n)

SpecHandles == Init /\ [][NextHandles]_vars

\* C22: resource discipline.  No file handle opened by an engine operation
\* outlives it: after open, set, delete or get has returned, normally or
\* with KeyNotFound, InvalidOffset, Corrupted or an I/O error, every engine
\* holds zero file handles.
C22_NoHandleOutlivesOperation ==
    \A i \in Instances : handles[i] = 0

\* C22 witness: get has failed with Corrupted, raised by the decoder inside
\* the block that holds the handle, after an append has failed with an I/O
\* error, and the engine holds no handle.
C22_Witness ==
    /\ last.op = "get" /\ last.outcome = "Corrupted"
    /\ IndexHas(index[last.inst], last.key)
    /\ tail.kind = "torn"
    /\ handles[last.inst] = 0

\* C23: index entries are always valid (I2) when only engines write the
\* file.  With one or more engines over the path, every entry (k, o) of
\* every engine's index points at a complete, decodable SET record whose
\* key is k and whose end lies within the file, and no get fails with
\* InvalidOffset or Corrupted.
C23_IndexEntriesValid ==
    /\ \A i \in Instances : \A k \in DOMAIN index[i] :
          LET decoded == FromStream(file, IndexGet(index[i], k))
          IN  /\ decoded.kind = "record"
              /\ decoded.op = SET
              /\ decoded.key = k
              /\ decoded.next <= Len(file)
    /\ last.op = "get" => last.outcome \in {"ok", "KeyNotFound"}
    /\ \A i \in Instances : status[i] # "failed"

\* C23 witness: engine A holds k at the first record, engine B, opened
\* later, has set k again and holds it at the second record, and A's get of
\* k has returned the value of the first record.
C23_Witness ==
    /\ last.op = "get" /\ last.inst = "A" /\ last.outcome = "ok"
    /\ last.key = <<2>> /\ last.value = <<2>>
    /\ hist = <<[op |-> SET, key |-> <<2>>, value |-> <<2>>],
                [op |-> SET, key |-> <<2>>, value |-> <<>>]>>
    /\ IndexGet(index["A"], <<2>>) = 0
    /\ IndexGet(index["B"], <<2>>) = STRUCT_size + 2

\* C24: get is read-only.  get(k) never changes the log file; it changes
\* the index only by removing the entry of k, and only when it fails with
\* InvalidOffset; a get that returns a value or fails with KeyNotFound
\* leaves the index and the log as they were; and no get changes the entry
\* of another key or the index of another engine.
C24_GetIsReadOnly ==
    [][last'.op = "get" =>
          LET i == last'.inst
              k == last'.key
          IN  /\ file' = file
              /\ exists' = exists
              /\ index'[i] # index[i] =>
                    /\ last'.outcome = "InvalidOffset"
                    /\ IndexHas(index[i], k)
                    /\ index'[i] = IndexDelete(index[i], k)
              /\ last'.outcome \in {"ok", "KeyNotFound"} => index' = index
              /\ \A x \in DOMAIN index[i] : x # k =>
                    (IndexHas(index'[i], x) /\ IndexGet(index'[i], x) = IndexGet(index[i], x))
              /\ DOMAIN index'[i] \subseteq DOMAIN index[i]
              /\ \A j \in Instances : j # i => index'[j] = index[j]]_vars

\* C24 witness: the file has been cut to nothing after set(k1), set(k2) has
\* put its record at offset 0, where the entry of k1 points, and get(k1)
\* has failed with InvalidOffset: the entry of k1 is gone, the entry of k2
\* and the file are as they were.
C24_Witness ==
    /\ last.op = "get" /\ last.outcome = "InvalidOffset"
    /\ last.key = <<1>>
    /\ ~IndexHas(index[last.inst], <<1>>)
    /\ IndexHas(index[last.inst], <<1, 2>>)
    /\ IndexGet(index[last.inst], <<1, 2>>) = 0
    /\ GetResult(index[last.inst], file, <<1, 2>>).outcome = "ok"
    /\ Len(ScanFrom(file, 0)) = 1
    /\ Len(hist) = 2

====
